---- MODULE Spec2Model ----
(***************************************************************************)
(* Speed-friending pairing tools: the round-robin scheduler of match.py,   *)
(* the similarity matcher and its multi-round driver of mbti_match.py and  *)
(* the duplicate verifier of verify_matches.py.                            *)
(*                                                                         *)
(* Strings whose characters matter (category codes, raw id tokens) are     *)
(* sequences of one-character strings; participant ids are plain strings.  *)
(* A pair (p1, p2) is the tuple <<p1, p2>>; its unordered form, Python's   *)
(* frozenset({p1, p2}), is the set {p1, p2}.                               *)
(***************************************************************************)
EXTENDS Integers, Sequences, FiniteSets, TLC

VARIABLES
    rr_entry,      \* match.py: "main" (through the CSV loader) or "direct" (a call of generate_rounds)
    rr_ids,        \* match.py: the ordered ids handed to generate_rounds
    rr_num,        \* match.py: the requested num_rounds
    rr_pc,         \* match.py: "load", "call", "done", "ValueError"
    rr_out,        \* match.py: the rounds generate_rounds returned
    sim_a,         \* mbti_similarity: first argument
    sim_b,         \* mbti_similarity: second argument
    sim_pc,        \* mbti_similarity: "call", "done"
    sim_out,       \* mbti_similarity: the returned score
    br_people,     \* build_round: the people argument
    br_past,       \* build_round: the past_pairs argument
    br_pc,         \* build_round: "call", "done"
    br_pairs,      \* build_round: the returned round_pairs
    br_left,       \* build_round: the returned leftovers
    people,        \* mbti generate_rounds: the Person list
    num_rounds,    \* mbti generate_rounds: the requested round count
    rounds,        \* mbti generate_rounds: the rounds accumulated so far
    past_pairs,    \* mbti generate_rounds: the pair history
    iter,          \* mbti generate_rounds: iterations of the for loop begun so far
    pc,            \* mbti generate_rounds: "loop", "done"
    v_isdir,       \* verify_matches main: os.path.isdir(root_dir)
    v_file,        \* verify_matches collect_pairs: index of the file being scanned
    v_lineno,      \* verify_matches iter_pairs_in_file: lines read of that file
    v_read,        \* verify_matches: lines read so far over all files
    all_pairs,     \* verify_matches collect_pairs: key -> occurrences
    duplicates,    \* verify_matches main: find_duplicates(all_pairs)
    v_pc,          \* verify_matches main: "start", "scan", "exit"
    v_exit         \* verify_matches main: the exit status

rrVars  == <<rr_entry, rr_ids, rr_num, rr_pc, rr_out>>
simVars == <<sim_a, sim_b, sim_pc, sim_out>>
brVars  == <<br_people, br_past, br_pc, br_pairs, br_left>>
drvVars == <<people, num_rounds, rounds, past_pairs, iter, pc>>
verVars == <<v_isdir, v_file, v_lineno, v_read, all_pairs, duplicates, v_pc, v_exit>>
vars    == <<rrVars, simVars, brVars, drvVars, verVars>>

(***************************************************************************)
(* Bounds and input domains                                                *)
(***************************************************************************)
\* longest id list handed to the round-robin scheduler
MaxIds == 6

IdNames == <<"A", "B", "C", "D", "E", "F", "G", "H", "I", "J">>

IdPool(n) == {IdNames[i] : i \in 1..n}

\* all lists of distinct ids of length 0..n over IdPool(n)
DistinctLists(n) ==
    UNION {{s \in [1..k -> IdPool(n)] : \A i, j \in 1..k : i # j => s[i] # s[j]} : k \in 0..n}

Min(a, b) == IF a < b THEN a ELSE b

\* the unordered pairs occurring in one round (a sequence of 2-tuples)
PairSet(round) == {{round[i][1], round[i][2]} : i \in 1..Len(round)}

\* the ids occurring in one round
IdsIn(round) == UNION PairSet(round)

SeqToSet(s) == {s[i] : i \in 1..Len(s)}

(***************************************************************************)
(* match.py: the round-robin scheduler                                     *)
(***************************************************************************)
\* a round that pairs each position with its right neighbour
PairsOfNeighbours(current, n) ==
    [i \in 1..(n \div 2) |-> <<current[i], current[i + 1]>>]

\* lines 44-48: pair position i with position n-1-i of current (0-based)
PairsOf(current, n) ==
    [i \in 1..(n \div 2) |-> <<current[i], current[n + 1 - i]>>]

\* a rotation that leaves the ring where it is
RotateNot(others) == others

\* lines 53-54: move the last element of others to the front
Rotate(others) ==
    <<others[Len(others)]>> \o SubSeq(others, 1, Len(others) - 1)

\* a clamp that lets the requested count through
ClampNot(n, requested) == requested

\* lines 28-33: cap num_rounds at n - 1
Clamp(n, requested) ==
    IF requested > n - 1 THEN n - 1 ELSE requested

\* lines 41-54: the for loop, k iterations left
RECURSIVE RoundsLoop(_, _, _, _, _)
RoundsLoop(fixed, others, n, k, acc) ==
    IF k <= 0 THEN acc
    ELSE RoundsLoop(fixed, Rotate(others), n, k - 1,
                    Append(acc, PairsOf(<<fixed>> \o others, n)))

\* lines 14-56
match_generate_rounds(ids, requested) ==
    LET n == Len(ids) IN
    IF n < 2 THEN <<>>
    ELSE RoundsLoop(ids[1], Tail(ids), n, Clamp(n, requested), <<>>)

\* config_loader.py lines 63-69: the roster is rejected when empty or odd
read_participants_rejects(n) == n = 0 \/ n % 2 # 0

(***************************************************************************)
(* Character strings: upper-casing and trimming                            *)
(***************************************************************************)
\* str.upper on one character of the modelled alphabet
UpperChar(c) ==
    CASE c = "i" -> "I"
      [] c = "e" -> "E"
      [] c = "n" -> "N"
      [] c = "t" -> "T"
      [] c = "j" -> "J"
      [] c = "f" -> "F"
      [] c = "p" -> "P"
      [] OTHER -> c

\* an upper-casing that leaves the string as written
UpperNot(s) == s

\* str.upper
Upper(s) == [i \in 1..Len(s) |-> UpperChar(s[i])]

IsSpace(c) == c = " "

RECURSIVE LStrip(_)
LStrip(s) ==
    IF s # <<>> /\ IsSpace(Head(s)) THEN LStrip(Tail(s)) ELSE s

RECURSIVE RStrip(_)
RStrip(s) ==
    IF s # <<>> /\ IsSpace(s[Len(s)]) THEN RStrip(SubSeq(s, 1, Len(s) - 1)) ELSE s

\* str.strip: drop leading and trailing whitespace
Strip(s) == RStrip(LStrip(s))

(***************************************************************************)
(* mbti_match.py: similarity                                               *)
(***************************************************************************)
\* line 42: the length a code must have after trimming
CodeLen == 4

\* lines 35-49
mbti_similarity(a, b) ==
    LET ua == Strip(Upper(a))
        ub == Strip(Upper(b))
    IN  IF Len(ua) # CodeLen \/ Len(ub) # CodeLen THEN 0
        ELSE Cardinality({i \in 1..CodeLen : ua[i] = ub[i]})

(***************************************************************************)
(* mbti_match.py: candidate pairs and one greedy round                     *)
(* A Person is [pid |-> id, mbti |-> code]; a candidate is                 *)
(* <<score, person_a, person_b>>.                                          *)
(***************************************************************************)
\* lines 67-68: the index pairs i < j in the order the two loops visit them
RECURSIVE EnumPairs(_, _, _)
EnumPairs(i, j, n) ==
    IF i > n THEN <<>>
    ELSE IF j > n THEN EnumPairs(i + 1, i + 2, n)
    ELSE <<<<i, j>>>> \o EnumPairs(i, j + 1, n)

\* a history test that lets every pair through
AllowedAll(p1, p2, past) == TRUE

\* lines 71-73: the pair is skipped when its key is in past_pairs
Allowed(p1, p2, past) == {p1.pid, p2.pid} \notin past

\* lines 64-76: the unsorted candidates, in enumeration order
RECURSIVE Candidates(_, _, _)
Candidates(ppl, ij, past) ==
    IF ij = <<>> THEN <<>>
    ELSE LET p1 == ppl[Head(ij)[1]]
             p2 == ppl[Head(ij)[2]]
             rest == Candidates(ppl, Tail(ij), past)
         IN  IF Allowed(p1, p2, past)
             THEN <<<<mbti_similarity(p1.mbti, p2.mbti), p1, p2>>>> \o rest
             ELSE rest

\* line 79: list.sort(key = score, reverse = True), a stable sort: the
\* candidates of score s, in their original order, for s from CodeLen down to 0
RECURSIVE SortDesc(_, _)
SortDesc(cands, s) ==
    IF s < 0 THEN <<>>
    ELSE LET HasScore(c) == c[1] = s
         IN  SelectSeq(cands, HasScore) \o SortDesc(cands, s - 1)

\* the candidates of score s, in their original order, for s from lo up to CodeLen
RECURSIVE SortAsc(_, _)
SortAsc(cands, lo) ==
    IF lo > CodeLen THEN <<>>
    ELSE LET HasScore(c) == c[1] = lo
         IN  SelectSeq(cands, HasScore) \o SortAsc(cands, lo + 1)

\* an ascending stable sort read backwards: descending scores, ties reversed
SortReversedAscending(cands) ==
    LET asc == SortAsc(cands, 0)
    IN  [i \in 1..Len(asc) |-> asc[Len(asc) + 1 - i]]

\* line 79: candidates.sort(key=lambda t: t[0], reverse=True)
SortCandidates(cands) == SortDesc(cands, CodeLen)

\* lines 52-80
generate_candidate_pairs(ppl, past) ==
    SortCandidates(Candidates(ppl, EnumPairs(1, 2, Len(ppl)), past))

\* a test that never finds a person used
IsUsedNot(p, used) == FALSE

\* line 108: the person is already in a pair of this round
IsUsed(p, used) == p.pid \in used

\* lines 103-113: walk the candidates, accepting a pair of two unused people
RECURSIVE Walk(_, _, _)
Walk(cands, used, acc) ==
    IF cands = <<>> THEN [pairs |-> acc, used |-> used]
    ELSE LET p1 == Head(cands)[2]
             p2 == Head(cands)[3]
         IN  IF IsUsed(p1, used) \/ IsUsed(p2, used)
             THEN Walk(Tail(cands), used, acc)
             ELSE Walk(Tail(cands), used \cup {p1.pid, p2.pid}, Append(acc, <<p1, p2>>))

\* lines 83-116: returns (round_pairs, leftovers)
build_round(ppl, past) ==
    IF Len(ppl) < 2 THEN [pairs |-> <<>>, leftovers |-> ppl]
    ELSE LET w == Walk(generate_candidate_pairs(ppl, past), {}, <<>>)
             Unused(p) == p.pid \notin w.used
         IN  [pairs |-> w.pairs, leftovers |-> SelectSeq(ppl, Unused)]

\* an update that forgets the new pairs
update_past_pairs_not(past, new_pairs) == past

\* lines 119-129
update_past_pairs(past, new_pairs) ==
    past \cup {{new_pairs[i][1].pid, new_pairs[i][2].pid} : i \in 1..Len(new_pairs)}

\* line 172: Person pairs -> id pairs
IdPairs(person_pairs) ==
    [i \in 1..Len(person_pairs) |-> <<person_pairs[i][1].pid, person_pairs[i][2].pid>>]

(***************************************************************************)
(* verify_matches.py: parsing, collecting, duplicate detection             *)
(* A line is [shape, raw1, raw2]: the pattern its text has ("table",       *)
(* "bullet", "dash", or "none" for a heading, separator or blank line) and *)
(* the two raw tokens the pattern's groups capture.  An occurrence keeps    *)
(* the shape as its line_text.                                             *)
(***************************************************************************)
\* lines 16-32: the patterns, in priority order
PAIR_LINE_PATTERNS == <<"table", "bullet", "dash">>

\* lines 48-49
normalize_id(raw) == Strip(raw)

\* line 97: frozenset({occ.person1, occ.person2})
PairKey(occ) == {occ.person1, occ.person2}

\* lines 59-78: the patterns tried in order on one non-empty line; the first
\* that matches with two non-empty ids yields the occurrence
RECURSIVE TryPatterns(_, _, _, _)
TryPatterns(k, line, filename, lineno) ==
    IF k > Len(PAIR_LINE_PATTERNS) THEN <<>>
    ELSE IF line.shape # PAIR_LINE_PATTERNS[k]
         THEN TryPatterns(k + 1, line, filename, lineno)
    ELSE LET id1 == normalize_id(line.raw1)
             id2 == normalize_id(line.raw2)
         IN  IF id1 = <<>> \/ id2 = <<>>
             THEN TryPatterns(k + 1, line, filename, lineno)
             ELSE <<[person1 |-> id1, person2 |-> id2, filename |-> filename,
                     line_number |-> lineno, line_text |-> line.shape]>>

\* lines 89-93: LICENSE.md and files of another extension are not scanned
IsScanned(name) == name # "LICENSE.md" /\ name # "notes.txt"

\* line 98: all_pairs.setdefault(key, []).append(occ)
AddOccurrence(ap, occ) ==
    LET key == PairKey(occ)
    IN  IF key \in DOMAIN ap
        THEN [ap EXCEPT ![key] = Append(@, occ)]
        ELSE [k \in DOMAIN ap \cup {key} |-> IF k = key THEN <<occ>> ELSE ap[k]]

\* a filter that keeps every key
IsDuplicateNot(occs) == Len(occs) > 0

\* line 108: len(v) > 1
IsDuplicate(occs) == Len(occs) > 1

\* lines 107-108
find_duplicates(ap) ==
    [k \in {x \in DOMAIN ap : IsDuplicate(ap[x])} |-> ap[k]]

\* line 176: sys.exit(1 if duplicates else 0)
ExitStatus(dups) == IF DOMAIN dups # {} THEN 1 ELSE 0

EmptyDict == [k \in {} |-> <<>>]

(***************************************************************************)
(* Input domains of the specifications                                     *)
(***************************************************************************)
\* most padding blanks on either side of a code handed to mbti_similarity
MaxPad == 1

\* longest Person list handed to a single build_round call
MaxBuild == 4

\* longest Person list handed to the multi-round driver
MaxPeople == 6

\* most lines the verifier reads over all files
MaxLines == 3

\* the requested round counts: none, runs cut short, and one that never cuts
RoundChoices == {0, 1, 3, 2 * MaxPeople}

INTJ == <<"I", "N", "T", "J">>
ENFP == <<"E", "N", "F", "P">>
INFP == <<"I", "N", "F", "P">>

\* the codes of the Persons handed to a single build_round call
BuildCodes == {INTJ, ENFP, <<>>}

SimLetters == {"i", "I", "E"}

Blanks(k) == [i \in 1..k |-> " "]

SimStrings ==
    {Blanks(l) \o core \o Blanks(r) :
        l \in 0..MaxPad, r \in 0..MaxPad,
        core \in UNION {[1..k -> SimLetters] : k \in 0..CodeLen}}

\* the Person lists of length 0..n with ids IdNames[1..] and codes from codes
Rosters(n, codes) ==
    UNION {{[i \in 1..k |-> [pid |-> IdNames[i], mbti |-> c[i]]] : c \in [1..k -> codes]}
           : k \in 0..n}

\* every unordered pair of two different ids of a Person list
AllKeys(ppl) ==
    {{ppl[i].pid, ppl[j].pid} : i, j \in 1..Len(ppl)} \ {{ppl[i].pid} : i \in 1..Len(ppl)}

RawTokens == {<<"A">>, <<"B">>, <<" ", "B">>, <<" ">>}

Lines ==
    {[shape |-> "none", raw1 |-> <<>>, raw2 |-> <<>>]}
    \cup [shape : {"table", "bullet", "dash"}, raw1 : RawTokens, raw2 : RawTokens]

Files == <<"round_1.md", "LICENSE.md", "round_2.md", "notes.txt">>

(***************************************************************************)
(* Idle values: the variables a specification does not use                 *)
(***************************************************************************)
RRIdle ==
    /\ rr_entry = "direct" /\ rr_ids = <<>> /\ rr_num = 0
    /\ rr_pc = "idle" /\ rr_out = <<>>

SimIdle ==
    /\ sim_a = <<>> /\ sim_b = <<>> /\ sim_pc = "idle" /\ sim_out = 0

BuildIdle ==
    /\ br_people = <<>> /\ br_past = {} /\ br_pc = "idle"
    /\ br_pairs = <<>> /\ br_left = <<>>

DriverIdle ==
    /\ people = <<>> /\ num_rounds = 0 /\ rounds = <<>>
    /\ past_pairs = {} /\ iter = 0 /\ pc = "idle"

VerifyIdle ==
    /\ v_isdir = FALSE /\ v_file = 0 /\ v_lineno = 0 /\ v_read = 0
    /\ all_pairs = EmptyDict /\ duplicates = EmptyDict
    /\ v_pc = "idle" /\ v_exit = 0

(***************************************************************************)
(* SpecRR: match.py, through main or by a direct call of generate_rounds   *)
(***************************************************************************)
RRInit ==
    /\ rr_entry \in {"main", "direct"}
    /\ rr_ids \in DistinctLists(MaxIds)
    /\ rr_num \in 0..(MaxIds + 1)
    /\ rr_pc = IF rr_entry = "main" THEN "load" ELSE "call"
    /\ rr_out = <<>>
    /\ SimIdle /\ BuildIdle /\ DriverIdle /\ VerifyIdle

\* match.py main, line 158: read_participants_from_csv raises ValueError on an
\* empty or odd roster, else the ids go on to generate_rounds
RRLoad ==
    /\ rr_pc = "load"
    /\ rr_pc' = IF read_participants_rejects(Len(rr_ids)) THEN "ValueError" ELSE "call"
    /\ UNCHANGED <<rr_entry, rr_ids, rr_num, rr_out>>
    /\ UNCHANGED <<simVars, brVars, drvVars, verVars>>

\* the call generate_rounds(ids, num_rounds)
RRCall ==
    /\ rr_pc = "call"
    /\ rr_out' = match_generate_rounds(rr_ids, rr_num)
    /\ rr_pc' = "done"
    /\ UNCHANGED <<rr_entry, rr_ids, rr_num>>
    /\ UNCHANGED <<simVars, brVars, drvVars, verVars>>

RRNext == RRLoad \/ RRCall

SpecRR == RRInit /\ [][RRNext]_vars

(***************************************************************************)
(* SpecSim: calls of mbti_similarity                                       *)
(***************************************************************************)
SimInit ==
    /\ sim_a \in SimStrings
    /\ sim_b \in SimStrings
    /\ sim_pc = "call"
    /\ sim_out = 0
    /\ RRIdle /\ BuildIdle /\ DriverIdle /\ VerifyIdle

SimCall ==
    /\ sim_pc = "call"
    /\ sim_out' = mbti_similarity(sim_a, sim_b)
    /\ sim_pc' = "done"
    /\ UNCHANGED <<sim_a, sim_b>>
    /\ UNCHANGED <<rrVars, brVars, drvVars, verVars>>

SimNext == SimCall

SpecSim == SimInit /\ [][SimNext]_vars

(***************************************************************************)
(* SpecBuild: calls of build_round on any Person list and any history      *)
(***************************************************************************)
BuildInit ==
    /\ br_people \in Rosters(MaxBuild, BuildCodes)
    /\ br_past \in SUBSET AllKeys(br_people)
    /\ br_pc = "call"
    /\ br_pairs = <<>>
    /\ br_left = <<>>
    /\ RRIdle /\ SimIdle /\ DriverIdle /\ VerifyIdle

BuildCall ==
    /\ br_pc = "call"
    /\ LET r == build_round(br_people, br_past)
       IN  /\ br_pairs' = r.pairs
           /\ br_left' = r.leftovers
    /\ br_pc' = "done"
    /\ UNCHANGED <<br_people, br_past>>
    /\ UNCHANGED <<rrVars, simVars, drvVars, verVars>>

BuildNext == BuildCall

SpecBuild == BuildInit /\ [][BuildNext]_vars

(***************************************************************************)
(* SpecDriver: mbti_match.generate_rounds, one loop iteration per step     *)
(***************************************************************************)
\* lines 155-162
DriverInit ==
    /\ people \in Rosters(MaxPeople, {INTJ, ENFP, INFP})
    /\ num_rounds \in RoundChoices
    /\ rounds = <<>>
    /\ past_pairs = {}
    /\ iter = 0
    /\ pc = "loop"
    /\ RRIdle /\ SimIdle /\ BuildIdle /\ VerifyIdle

\* lines 164-176: an iteration whose round has pairs
DriverRound ==
    /\ pc = "loop"
    /\ iter < num_rounds
    /\ LET r == build_round(people, past_pairs)
       IN  /\ r.pairs # <<>>
           /\ rounds' = Append(rounds, IdPairs(r.pairs))
           /\ past_pairs' = update_past_pairs(past_pairs, r.pairs)
    /\ iter' = iter + 1
    /\ UNCHANGED <<people, num_rounds, pc>>
    /\ UNCHANGED <<rrVars, simVars, brVars, verVars>>

\* lines 165-169: an iteration whose round is empty breaks out of the loop
DriverBreak ==
    /\ pc = "loop"
    /\ iter < num_rounds
    /\ build_round(people, past_pairs).pairs = <<>>
    /\ iter' = iter + 1
    /\ pc' = "done"
    /\ UNCHANGED <<people, num_rounds, rounds, past_pairs>>
    /\ UNCHANGED <<rrVars, simVars, brVars, verVars>>

\* line 178: the loop ran num_rounds times
DriverReturn ==
    /\ pc = "loop"
    /\ iter >= num_rounds
    /\ pc' = "done"
    /\ UNCHANGED <<people, num_rounds, rounds, past_pairs, iter>>
    /\ UNCHANGED <<rrVars, simVars, brVars, verVars>>

DriverNext == DriverRound \/ DriverBreak \/ DriverReturn

SpecDriver == DriverInit /\ [][DriverNext]_vars

(***************************************************************************)
(* SpecVerify: verify_matches.main                                         *)
(***************************************************************************)
VerifyInit ==
    /\ v_isdir \in BOOLEAN
    /\ v_file = 1
    /\ v_lineno = 0
    /\ v_read = 0
    /\ all_pairs = EmptyDict
    /\ duplicates = EmptyDict
    /\ v_pc = "start"
    /\ v_exit = 0
    /\ RRIdle /\ SimIdle /\ BuildIdle /\ DriverIdle

\* lines 166-169: a root that is no directory exits with status 1
VNotDir ==
    /\ v_pc = "start"
    /\ ~v_isdir
    /\ v_exit' = 1
    /\ v_pc' = "exit"
    /\ UNCHANGED <<v_isdir, v_file, v_lineno, v_read, all_pairs, duplicates>>
    /\ UNCHANGED <<rrVars, simVars, brVars, drvVars>>

\* line 171: collect_pairs begins
VCollect ==
    /\ v_pc = "start"
    /\ v_isdir
    /\ v_pc' = "scan"
    /\ UNCHANGED <<v_isdir, v_file, v_lineno, v_read, all_pairs, duplicates, v_exit>>
    /\ UNCHANGED <<rrVars, simVars, brVars, drvVars>>

\* lines 89-93: a file that is not scanned
VSkipFile ==
    /\ v_pc = "scan"
    /\ v_file <= Len(Files)
    /\ ~IsScanned(Files[v_file])
    /\ v_file' = v_file + 1
    /\ v_lineno' = 0
    /\ UNCHANGED <<v_isdir, v_read, all_pairs, duplicates, v_pc, v_exit>>
    /\ UNCHANGED <<rrVars, simVars, brVars, drvVars>>

\* lines 54-78 and 96-98: one more line of the file being scanned
VScanLine ==
    /\ v_pc = "scan"
    /\ v_file <= Len(Files)
    /\ IsScanned(Files[v_file])
    /\ v_read < MaxLines
    /\ \E line \in Lines :
         LET found == TryPatterns(1, line, Files[v_file], v_lineno + 1)
         IN  all_pairs' = IF found = <<>> THEN all_pairs
                          ELSE AddOccurrence(all_pairs, found[1])
    /\ v_lineno' = v_lineno + 1
    /\ v_read' = v_read + 1
    /\ UNCHANGED <<v_isdir, v_file, duplicates, v_pc, v_exit>>
    /\ UNCHANGED <<rrVars, simVars, brVars, drvVars>>

\* the file being scanned ends
VEndOfFile ==
    /\ v_pc = "scan"
    /\ v_file <= Len(Files)
    /\ IsScanned(Files[v_file])
    /\ v_file' = v_file + 1
    /\ v_lineno' = 0
    /\ UNCHANGED <<v_isdir, v_read, all_pairs, duplicates, v_pc, v_exit>>
    /\ UNCHANGED <<rrVars, simVars, brVars, drvVars>>

\* lines 172-176: find_duplicates, the report and the exit status
VFinish ==
    /\ v_pc = "scan"
    /\ v_file > Len(Files)
    /\ duplicates' = find_duplicates(all_pairs)
    /\ v_exit' = ExitStatus(find_duplicates(all_pairs))
    /\ v_pc' = "exit"
    /\ UNCHANGED <<v_isdir, v_file, v_lineno, v_read, all_pairs>>
    /\ UNCHANGED <<rrVars, simVars, brVars, drvVars>>

VerifyNext ==
    VNotDir \/ VCollect \/ VSkipFile \/ VScanLine \/ VEndOfFile \/ VFinish

SpecVerify == VerifyInit /\ [][VerifyNext]_vars

(***************************************************************************)
(* Claims about match.generate_rounds (SpecRR)                             *)
(***************************************************************************)
NumIds == Len(rr_ids)

EvenRoster == NumIds >= 2 /\ NumIds % 2 = 0

\* every unordered pair of two different ids of a list
AllPairsOf(ids) ==
    {{a, b} : a, b \in SeqToSet(ids)} \ {{a} : a \in SeqToSet(ids)}

\* the (round, table) positions of a schedule
Positions(sched) ==
    UNION {{<<k, i>> : i \in 1..Len(sched[k])} : k \in 1..Len(sched)}

\* how often an unordered pair occurs in a schedule
Occurrences(sched, key) ==
    Cardinality({pos \in Positions(sched) :
                    {sched[pos[1]][pos[2]][1], sched[pos[1]][pos[2]][2]} = key})

ExampleSchedule ==
    << << <<"A", "D">>, <<"B", "C">> >>,
       << <<"A", "C">>, <<"D", "B">> >>,
       << <<"A", "B">>, <<"C", "D">> >> >>

\* C1: for an even roster of n >= 2 distinct ids, generate_rounds(ids, n-1)
\* returns n-1 rounds whose pairs are exactly the C(n,2) unordered pairs of
\* ids, each occurring exactly once; for [A,B,C,D] it returns the rounds
\* [(A,D),(B,C)], [(A,C),(D,B)], [(A,B),(C,D)].
C1_FullCoverage ==
    (rr_pc = "done" /\ EvenRoster /\ rr_num = NumIds - 1) =>
        /\ Len(rr_out) = NumIds - 1
        /\ \A pos \in Positions(rr_out) :
             {rr_out[pos[1]][pos[2]][1], rr_out[pos[1]][pos[2]][2]} \in AllPairsOf(rr_ids)
        /\ \A key \in AllPairsOf(rr_ids) : Occurrences(rr_out, key) = 1
        /\ (rr_ids = <<"A", "B", "C", "D">> => rr_out = ExampleSchedule)

C1_Witness ==
    /\ rr_pc = "done"
    /\ rr_ids = <<"A", "B", "C", "D">>
    /\ rr_num = 3
    /\ rr_out = ExampleSchedule

\* C2: for an even roster of n >= 2 distinct ids and any requested count,
\* every returned round is a perfect matching: n/2 pairs, no id twice in the
\* round, every id of the roster in it.
C2_PerfectMatching ==
    (rr_pc = "done" /\ EvenRoster) =>
        \A k \in 1..Len(rr_out) :
            /\ Len(rr_out[k]) = NumIds \div 2
            /\ \A i \in 1..Len(rr_out[k]) : rr_out[k][i][1] # rr_out[k][i][2]
            /\ \A i, j \in 1..Len(rr_out[k]) :
                 i # j => {rr_out[k][i][1], rr_out[k][i][2]}
                            \cap {rr_out[k][j][1], rr_out[k][j][2]} = {}
            /\ IdsIn(rr_out[k]) = SeqToSet(rr_ids)

C2_Witness ==
    /\ rr_pc = "done"
    /\ NumIds = 6
    /\ rr_num = 2
    /\ Len(rr_out) = 2
    /\ Len(rr_out[2]) = 3

\* C3: for an even roster of n >= 2 ids and a requested count R >= 1,
\* generate_rounds(ids, R) returns exactly min(R, n-1) rounds, never more than
\* n-1, and they are the first min(R, n-1) rounds of generate_rounds(ids, n-1).
C3_ClampedPrefix ==
    (rr_pc = "done" /\ EvenRoster /\ rr_num >= 1) =>
        /\ Len(rr_out) = Min(rr_num, NumIds - 1)
        /\ Len(rr_out) <= NumIds - 1
        /\ rr_out = SubSeq(match_generate_rounds(rr_ids, NumIds - 1),
                           1, Min(rr_num, NumIds - 1))

C3_Witness ==
    /\ rr_pc = "done"
    /\ NumIds = 4
    /\ rr_num = 5
    /\ Len(rr_out) = 3

\* C4: given an odd number of ids, the scheduler fails: it returns no rounds
\* and never produces a round that leaves a participant unpaired.
C4_OddRejected ==
    (rr_pc = "done" /\ NumIds % 2 = 1) =>
        /\ rr_out = <<>>
        /\ \A k \in 1..Len(rr_out) : IdsIn(rr_out[k]) = SeqToSet(rr_ids)

(***************************************************************************)
(* Claims about build_round (SpecBuild)                                    *)
(***************************************************************************)
\* the ids of the Person pairs of a round
PersonIds(person_pairs, i) == {person_pairs[i][1].pid, person_pairs[i][2].pid}

\* C5: for every Person list with unique ids and every history, the round
\* build_round returns has no pair whose unordered id pair is in the history,
\* and no id in more than one of its pairs.
C5_NoHistoryNoReuse ==
    br_pc = "done" =>
        /\ \A i \in 1..Len(br_pairs) : PersonIds(br_pairs, i) \notin br_past
        /\ \A i \in 1..Len(br_pairs) : br_pairs[i][1].pid # br_pairs[i][2].pid
        /\ \A i, j \in 1..Len(br_pairs) :
             i # j => PersonIds(br_pairs, i) \cap PersonIds(br_pairs, j) = {}

C5_Witness ==
    /\ br_pc = "done"
    /\ Len(br_people) = 4
    /\ Cardinality(br_past) = 2
    /\ Len(br_pairs) = 2

\* C9, the build_round half: every input participant is in exactly one pair
\* of the returned round or in the returned leftovers, never both, never
\* neither.
C9_BuildRoundPartitions ==
    br_pc = "done" =>
        \A p \in 1..Len(br_people) :
            LET inPairs == {i \in 1..Len(br_pairs) : br_people[p].pid \in PersonIds(br_pairs, i)}
                inLeft  == {i \in 1..Len(br_left) : br_left[i] = br_people[p]}
            IN  Cardinality(inPairs) + Cardinality(inLeft) = 1

\* the reference greedy of C11, on index pairs <<i, j>> of the Person list:
\* the pairs i < j whose ids are not in the history
RefCandidates(ppl, past) ==
    {c \in (1..Len(ppl)) \X (1..Len(ppl)) :
        c[1] < c[2] /\ {ppl[c[1]].pid, ppl[c[2]].pid} \notin past}

\* the score of every two codes a Person of SpecBuild can have
ScoreTable == [a \in BuildCodes, b \in BuildCodes |-> mbti_similarity(a, b)]

RefScore(ppl, c) == ScoreTable[ppl[c[1]].mbti, ppl[c[2]].mbti]

\* c comes before d: a higher score, or the same score and earlier in the
\* enumeration of the pairs i < j
RefBefore(ppl, c, d) ==
    \/ RefScore(ppl, c) > RefScore(ppl, d)
    \/ /\ RefScore(ppl, c) = RefScore(ppl, d)
       /\ (c[1] < d[1] \/ (c[1] = d[1] /\ c[2] < d[2]))

\* the candidates as a list, each at the rank its predecessors give it
RefOrder(ppl, past) ==
    LET S == RefCandidates(ppl, past)
    IN  [r \in 1..Cardinality(S) |->
            CHOOSE c \in S : Cardinality({d \in S : RefBefore(ppl, d, c)}) = r - 1]

\* walk the whole list from position k, accepting a pair iff neither index is
\* in a pair accepted before it
RECURSIVE RefWalk(_, _, _)
RefWalk(order, k, acc) ==
    IF k > Len(order) THEN acc
    ELSE LET c == order[k]
             taken == UNION {{acc[i][1], acc[i][2]} : i \in 1..Len(acc)}
         IN  IF c[1] \in taken \/ c[2] \in taken
             THEN RefWalk(order, k + 1, acc)
             ELSE RefWalk(order, k + 1, Append(acc, c))

RefRound(ppl, past) ==
    LET acc == RefWalk(RefOrder(ppl, past), 1, <<>>)
    IN  [i \in 1..Len(acc) |-> <<ppl[acc[i][1]], ppl[acc[i][2]]>>]

\* the ids build_round left unpaired
Unpaired == {br_left[i].pid : i \in 1..Len(br_left)}

IsExampleRoster ==
    /\ Len(br_people) = 4
    /\ br_people[1].mbti = INTJ /\ br_people[2].mbti = INTJ
    /\ br_people[3].mbti = ENFP /\ br_people[4].mbti = ENFP
    /\ br_past = {}

\* C11: the round build_round returns is the reference greedy's: the pairs
\* i < j absent from the history, by descending score with ties in enumeration
\* order, walked to the end accepting a pair iff neither participant is used;
\* so the round is a maximal matching (no two leftovers form a pair absent
\* from the history), and INTJ, INTJ, ENFP, ENFP with empty history pairs the
\* two INTJs and the two ENFPs, never a cross pairing.
C11_ReferenceGreedy ==
    br_pc = "done" =>
        /\ br_pairs = RefRound(br_people, br_past)
        /\ \A a, b \in Unpaired : a # b => {a, b} \in br_past
        /\ IsExampleRoster =>
             br_pairs = << <<br_people[1], br_people[2]>>, <<br_people[3], br_people[4]>> >>

C11_Witness ==
    /\ br_pc = "done"
    /\ IsExampleRoster
    /\ Len(br_pairs) = 2
    /\ br_pairs[1][1].pid = "A" /\ br_pairs[1][2].pid = "B"
    /\ br_pairs[2][1].pid = "C" /\ br_pairs[2][2].pid = "D"

(***************************************************************************)
(* Claims about mbti_match.generate_rounds (SpecDriver)                    *)
(***************************************************************************)
NumPeople == Len(people)

\* C6: in every state of a run of the driver, no unordered id pair is in more
\* than one of the rounds accumulated so far, and the history is exactly the
\* set of unordered pairs of the accumulated rounds.
C6_HistoryIsRounds ==
    /\ \A k, l \in 1..Len(rounds) :
         k # l => PairSet(rounds[k]) \cap PairSet(rounds[l]) = {}
    /\ past_pairs = UNION {PairSet(rounds[k]) : k \in 1..Len(rounds)}

C6_Witness ==
    /\ pc = "loop"
    /\ NumPeople = 5
    /\ Len(rounds) = 3
    /\ Cardinality(past_pairs) = 6

\* C7 as stated: folding build_round's pairs into the history and calling it
\* again yields zero pairs after at most n-1 non-empty rounds.
C7_AtMostNMinus1 ==
    NumPeople >= 1 => Len(rounds) <= NumPeople - 1

\* C7 as amended: for n >= 2 participants build_round yields zero pairs after
\* at most 2n-3 non-empty rounds (for n < 2 it never yields a pair).
C7_AtMost2NMinus3 ==
    /\ NumPeople < 2 => Len(rounds) = 0
    /\ NumPeople >= 2 =>
         /\ Len(rounds) <= 2 * NumPeople - 3
         /\ (Len(rounds) = 2 * NumPeople - 3 =>
                build_round(people, past_pairs).pairs = <<>>)

C7_Witness ==
    /\ pc = "done"
    /\ NumPeople = 6
    /\ Len(rounds) = 7
    /\ iter = 8
    /\ build_round(people, past_pairs).pairs = <<>>

\* line 178: the driver returns the rounds alone; the leftovers build_round
\* gave it (line 165, _leftovers) are in no part of the returned value
ReturnedLeftovers(k) == {}

\* C9: no participant is silently dropped: in each round the driver returns,
\* every participant is in a pair of the round or among the round's leftovers
\* as far as the returned value shows them.
C9_LeftoversObservable ==
    pc = "done" =>
        \A k \in 1..Len(rounds) : \A p \in 1..NumPeople :
            \/ people[p].pid \in IdsIn(rounds[k])
            \/ people[p].pid \in ReturnedLeftovers(k)

(***************************************************************************)
(* Claims about mbti_similarity (SpecSim)                                  *)
(***************************************************************************)
\* the positions 1..CodeLen at which two codes agree, ignoring case
SamePositions(x, y) ==
    Cardinality({i \in 1..CodeLen : UpperChar(x[i]) = UpperChar(y[i])})

\* C8 as stated: two 4-character codes score the number of positions that
\* agree ignoring case; two codes of unequal length, or with either code
\* empty, score 0.
C8_ScoreOfRawCodes ==
    sim_pc = "done" =>
        /\ (Len(sim_a) = CodeLen /\ Len(sim_b) = CodeLen) =>
              sim_out = SamePositions(sim_a, sim_b)
        /\ (Len(sim_a) # Len(sim_b) \/ sim_a = <<>> \/ sim_b = <<>>) =>
              sim_out = 0

\* C8 as amended: the codes are compared after their leading and trailing
\* whitespace is trimmed.  Two codes that are 4 characters long once trimmed
\* score the number of positions that agree ignoring case (0..4; identical
\* codes 4, codes differing everywhere 0); two codes whose trimmed lengths
\* differ, or either of which is empty once trimmed, score 0.
C8_ScoreOfTrimmedCodes ==
    sim_pc = "done" =>
        LET ta == Strip(sim_a)
            tb == Strip(sim_b)
        IN  /\ sim_out \in 0..CodeLen
            /\ (Len(ta) = CodeLen /\ Len(tb) = CodeLen) =>
                  /\ sim_out = SamePositions(ta, tb)
                  /\ (Upper(ta) = Upper(tb) => sim_out = CodeLen)
                  /\ ((\A i \in 1..CodeLen : UpperChar(ta[i]) # UpperChar(tb[i])) => sim_out = 0)
            /\ (Len(ta) # Len(tb) \/ ta = <<>> \/ tb = <<>>) => sim_out = 0

C8_Witness ==
    /\ sim_pc = "done"
    /\ sim_a = <<" ", "i", "I", "E", "E">>
    /\ sim_b = <<"I", "i", "E", "i">>
    /\ sim_out = 3

(***************************************************************************)
(* Claims about the duplicate verifier (SpecVerify)                        *)
(***************************************************************************)
\* the occurrences collected so far, as (key, index) positions
Collected == UNION {{<<k, i>> : i \in 1..Len(all_pairs[k])} : k \in DOMAIN all_pairs}

\* C10: occurrences are keyed by the unordered pair of their normalized
\* tokens, whatever the file and the textual shape; find_duplicates returns
\* exactly the keys with more than one occurrence; one pair occurring once in
\* each of two files is one duplicate key with two occurrences; and after a
\* scan the exit status is failure exactly when such a key exists.
C10_DuplicateKeys ==
    /\ \A c \in Collected :
         LET occ == all_pairs[c[1]][c[2]]
         IN  /\ c[1] = {occ.person1, occ.person2}
             /\ occ.person1 # <<>> /\ occ.person2 # <<>>
             /\ Strip(occ.person1) = occ.person1
             /\ Strip(occ.person2) = occ.person2
    /\ Cardinality(Collected) <= v_read
    /\ (v_pc = "exit" /\ v_isdir) =>
         /\ DOMAIN duplicates = {k \in DOMAIN all_pairs : Len(all_pairs[k]) > 1}
         /\ \A k \in DOMAIN duplicates : duplicates[k] = all_pairs[k]
         /\ (v_exit = 1) <=> (\E k \in DOMAIN all_pairs : Len(all_pairs[k]) > 1)
         /\ v_exit \in {0, 1}
         /\ \A k \in DOMAIN all_pairs :
              (/\ Len(all_pairs[k]) = 2
               /\ all_pairs[k][1].filename # all_pairs[k][2].filename
               /\ \A x \in DOMAIN all_pairs : x # k => Len(all_pairs[x]) = 1)
              => (DOMAIN duplicates = {k} /\ Len(duplicates[k]) = 2)

C10_Witness ==
    /\ v_pc = "exit"
    /\ v_exit = 1
    /\ Cardinality(DOMAIN all_pairs) = 2
    /\ DOMAIN duplicates = {{<<"A">>, <<"B">>}}
    /\ LET occs == duplicates[{<<"A">>, <<"B">>}]
       IN  /\ Len(occs) = 2
           /\ occs[1].filename = "round_1.md" /\ occs[1].line_text = "table"
           /\ occs[1].person1 = <<"A">>
           /\ occs[2].filename = "round_2.md" /\ occs[2].line_text = "bullet"
           /\ occs[2].person1 = <<"B">>

====
